---- MODULE Spec2Model ----
(***************************************************************************)
(* Model of frontend/app/index.tsx: the patient chat screen (PatientChat:  *)
(* socket handlers and the message ledger) and the assistant screen        *)
(* (FilleAI: handleSubmit, the connectivity gate and the offline cache).   *)
(*                                                                         *)
(* A text is a sequence of symbols.  A symbol is one character (a, A, blank) *)
(* or, for the fixed texts the program writes itself, one opaque phrase.   *)
(***************************************************************************)
EXTENDS Integers, Sequences, FiniteSets, TLC

\* ------------------------------------------------------------------ bounds
MaxLedger == 3      \* longest ledger explored
MaxSends == 2       \* messages the patient sends
MaxBatch == 2       \* longest history batch
NumDoctorMsgs == 2  \* distinct messages the doctor side can push
MaxTranscript == 4  \* longest assistant transcript explored
MaxStoreSize == 1   \* most entries of the stored offline answers

\* ----------------------------------------------------------------- strings
\* texts are written over the characters "a", "A" and " "
LowerChar(c) == IF c = "A" THEN "a" ELSE c

\* String.prototype.toLowerCase
ToLowerCase(s) == [i \in 1..Len(s) |-> LowerChar(s[i])]

RECURSIVE TrimStart(_)
TrimStart(s) == IF s # <<>> /\ Head(s) = " " THEN TrimStart(Tail(s)) ELSE s

RECURSIVE TrimEnd(_)
TrimEnd(s) ==
  IF s # <<>> /\ s[Len(s)] = " " THEN TrimEnd(SubSeq(s, 1, Len(s) - 1)) ELSE s

\* String.prototype.trim
Trim(s) == TrimEnd(TrimStart(s))

\* --------------------------------------------------- PatientChat constants
PatientId == "user_x"          \* patientId.current
DoctorId == "main_doctor"      \* doctorId.current
ChatId == PatientId \o "-" \o DoctorId   \* chatId.current
Undefined == "undefined"

\* what the compose input can hold: empty, blank, a text
ChatInputs == {<<>>, <<" ">>, <<"a">>}

\* new Date() on the client; timestamps are stored and shown, never read
Now == 0

WelcomeText == <<"Connected to healthcare chat. Start a conversation with a doctor.">>
ErrorText == <<"Failed to connect to the chat server. Please try again later.">>

VARIABLES
  message,       \* compose input of the chat screen
  messages,      \* the ledger of the chat screen
  isConnecting,
  isTyping,
  isConnected,
  socketState,   \* transport: "connecting" | "connected" | "closed"
  mounted,       \* the chat screen is mounted (its effect cleanup has not run)
  published,     \* how many of the sent 'message' events have gone out to the server
  lastTyping,    \* isTyping of the last 'typing' event emitted: "none" | "true" | "false"
  emitted,       \* the socket.current.emit calls of the handler that ran last
  sent,          \* the 'message' events emitted so far, in call order
  lastEvent      \* history variable: the handler that ran last, and its argument

chatVars == <<message, messages, isConnecting, isTyping, isConnected,
              socketState, mounted, published, lastTyping, emitted, sent, lastEvent>>

\* state of the assistant screen (FilleAI)
VARIABLES
  aiMessages,         \* messages of FilleAI: the transcript
  inputText,
  isLoading,
  isOnline,
  offlineResponses,
  offlineLoad,        \* loadOfflineData: "pending" | "done"
  isSearchSubmitted,
  animating,          \* the first-message transition is running
  inflight,           \* bodies of the live requests awaiting their response
  fetched,            \* the fetch calls of the handler that ran last
  consulted,          \* the offlineResponses keys read by the handler that ran last
  aiLast              \* history variable: the handler that ran last

aiVars == <<aiMessages, inputText, isLoading, isOnline, offlineResponses,
            offlineLoad, isSearchSubmitted, animating, inflight, fetched,
            consulted, aiLast>>

\* new Date(wire timestamp): the wire carries an ISO string, the ledger a Date
NewDate(ts) == ts.iso

\* JSON serialisation of a Date put on the wire
ToWire(t) == [iso |-> t]

\* Ledger entries: the fields of type Message, and two history fields that
\* record how the entry got into the ledger (origin) and, within its origin,
\* in which position it arrived (arrival).
SystemMessage(id, text, t) ==
  [id |-> id, text |-> text, senderId |-> "system", senderType |-> "system",
   timestamp |-> t, isRead |-> TRUE, origin |-> "system", arrival |-> 0]

OwnId(k) == "p" \o ToString(k)
DoctorMsgId(j) == "d" \o ToString(j)

\* what the server can put on the wire for the k-th message this client sent,
\* once that message has gone out
OwnPayloads ==
  {[id |-> OwnId(k), text |-> sent[k].text, senderId |-> PatientId,
    senderType |-> "patient", timestamp |-> sent[k].timestamp,
    isRead |-> r] : k \in 1..published, r \in BOOLEAN}

\* server timestamps of the doctor's messages: later ids carry earlier
\* timestamps, so that arrival order and timestamp order can disagree
DoctorTime(j) == NumDoctorMsgs + 1 - j

\* what the server can put on the wire for a message of the doctor
DoctorPayloads ==
  {[id |-> DoctorMsgId(j), text |-> <<"A">>, senderId |-> DoctorId,
    senderType |-> "doctor", timestamp |-> ToWire(DoctorTime(j)),
    isRead |-> FALSE] : j \in 1..NumDoctorMsgs}

Payloads == OwnPayloads \cup DoctorPayloads

\* the rank of a payload among the messages of its sender, in the order the
\* server stored them
SenderRank(data) ==
  IF data.senderId = PatientId
    THEN CHOOSE k \in 1..Len(sent) : OwnId(k) = data.id
    ELSE CHOOSE j \in 1..NumDoctorMsgs : DoctorMsgId(j) = data.id

\* a history batch lists each stored message once, one sender's messages in
\* the order the server stored them
Batches(maxLen) ==
  {b \in UNION {[1..n -> Payloads] : n \in 0..maxLen} :
     \A i, j \in DOMAIN b :
       (i < j) => /\ b[i].id # b[j].id
                  /\ (b[i].senderId = b[j].senderId
                        => SenderRank(b[i]) < SenderRank(b[j]))}

LiveCount(ledger) == Len(SelectSeq(ledger, LAMBDA m : m.origin = "live"))

\* { ...data, timestamp: new Date(data.timestamp) }
ToMessage(data, origin, arrival) ==
  [id |-> data.id, text |-> data.text, senderId |-> data.senderId,
   senderType |-> data.senderType, timestamp |-> NewDate(data.timestamp),
   isRead |-> data.isRead, origin |-> origin, arrival |-> arrival]

\* prevMessages => [...prevMessages, ...messageHistory.map(...)]
IngestHistory(prevMessages, messageHistory) ==
  prevMessages \o [i \in 1..Len(messageHistory) |->
                     ToMessage(messageHistory[i], "history", i)]

\* a ledger that files a live message by timestamp instead of by arrival
RECURSIVE InsertByTimestamp(_, _)
InsertByTimestamp(prevMessages, newMessage) ==
  IF prevMessages = <<>> THEN <<newMessage>>
  ELSE IF Head(prevMessages).timestamp > newMessage.timestamp
         THEN <<newMessage>> \o prevMessages
         ELSE <<Head(prevMessages)>> \o InsertByTimestamp(Tail(prevMessages), newMessage)

\* a ledger that ignores the echo of the patient's own message
IngestLiveSkipOwn(prevMessages, newMessage) ==
  IF newMessage.senderId = PatientId THEN prevMessages
  ELSE Append(prevMessages, newMessage)

\* prevMessages => [...prevMessages, newMessage]
IngestLive(prevMessages, newMessage) == Append(prevMessages, newMessage)

Emit(e) == emitted' = <<e>>
NoEmit == emitted' = <<>>

ChatInit ==
  /\ message = <<>>
  /\ messages = <<>>
  /\ isConnecting = TRUE
  /\ isTyping = FALSE
  /\ isConnected = FALSE
  /\ socketState = "connecting"
  /\ mounted = TRUE
  /\ published = 0
  /\ lastTyping = "none"
  /\ emitted = <<>>
  /\ sent = <<>>
  /\ lastEvent = [type |-> "mount"]

\* a connect handler that joins no chat
OnConnectNoJoin ==
  /\ socketState = "connecting"
  /\ socketState' = "connected"
  /\ isConnecting' = FALSE
  /\ NoEmit
  /\ messages' = <<SystemMessage("system-welcome", WelcomeText, Now)>>
  /\ published' = Len(sent)
  /\ lastEvent' = [type |-> "connect", flushed |-> Len(sent) - published]
  /\ UNCHANGED <<message, isTyping, isConnected, sent, mounted, lastTyping>>
  /\ UNCHANGED aiVars

\* socket.on('connect')
OnConnect ==
  /\ socketState = "connecting"
  /\ socketState' = "connected"
  /\ isConnecting' = FALSE
  /\ Emit([type |-> "joinChat", patientId |-> PatientId, doctorId |-> DoctorId])
  /\ messages' = <<SystemMessage("system-welcome", WelcomeText, Now)>>
  /\ published' = Len(sent)
  /\ lastEvent' = [type |-> "connect", flushed |-> Len(sent) - published]
  /\ UNCHANGED <<message, isTyping, isConnected, sent, mounted, lastTyping>>
  /\ UNCHANGED aiVars

\* a connect_error handler that leaves the loading view up
OnConnectErrorStaysConnecting ==
  /\ socketState = "connecting"
  /\ messages' = <<SystemMessage("system-error", ErrorText, Now)>>
  /\ NoEmit
  /\ lastEvent' = [type |-> "connect_error"]
  /\ UNCHANGED <<message, isConnecting, isTyping, isConnected, socketState, sent,
                 mounted, published, lastTyping>>
  /\ UNCHANGED aiVars

\* socket.on('connect_error')
OnConnectError ==
  /\ socketState = "connecting"
  /\ messages' = <<SystemMessage("system-error", ErrorText, Now)>>
  /\ isConnecting' = FALSE
  /\ NoEmit
  /\ lastEvent' = [type |-> "connect_error"]
  /\ UNCHANGED <<message, isTyping, isConnected, socketState, sent, mounted,
                 published, lastTyping>>
  /\ UNCHANGED aiVars

\* a screen with a 'disconnect' handler that clears the connected indicator
TransportDropClearsConnected ==
  /\ socketState = "connected"
  /\ socketState' = "connecting"
  /\ isConnected' = FALSE
  /\ NoEmit
  /\ lastEvent' = [type |-> "drop"]
  /\ UNCHANGED <<message, messages, isConnecting, isTyping, sent,
                 mounted, published, lastTyping>>
  /\ UNCHANGED aiVars

\* the transport drops; the screen registers no 'disconnect' handler and the
\* socket starts reconnecting on its own
TransportDrop ==
  /\ socketState = "connected"
  /\ socketState' = "connecting"
  /\ NoEmit
  /\ lastEvent' = [type |-> "drop"]
  /\ UNCHANGED <<message, messages, isConnecting, isTyping, isConnected, sent,
                 mounted, published, lastTyping>>
  /\ UNCHANGED aiVars

\* socket.on('previousMessages')
OnPreviousMessages ==
  /\ socketState = "connected"
  /\ \E messageHistory \in Batches(IF MaxBatch < MaxLedger - Len(messages)
                                  THEN MaxBatch ELSE MaxLedger - Len(messages)) :
       /\ IF Len(messageHistory) > 0
            THEN /\ messages' = IngestHistory(messages, messageHistory)
                 /\ isConnected' = TRUE
            ELSE UNCHANGED <<messages, isConnected>>
       /\ lastEvent' = [type |-> "previousMessages", arg |-> messageHistory]
  /\ NoEmit
  /\ UNCHANGED <<message, isConnecting, isTyping, socketState, sent, mounted,
                 published, lastTyping>>
  /\ UNCHANGED aiVars

\* a message handler that acknowledges every message, the patient's own too
OnMessageAcksAll ==
  /\ socketState = "connected"
  /\ Len(messages) < MaxLedger
  /\ \E data \in Payloads :
       /\ messages' = IngestLive(messages,
                        ToMessage(data, "live", LiveCount(messages) + 1))
       /\ isTyping' = FALSE
       /\ isConnected' = TRUE
       /\ Emit([type |-> "markAsRead", chatId |-> Undefined,
                messageIds |-> <<data.id>>])
       /\ lastEvent' = [type |-> "message", arg |-> data]
  /\ UNCHANGED <<message, isConnecting, socketState, sent, mounted, published,
                 lastTyping>>
  /\ UNCHANGED aiVars

\* socket.on('message')
OnMessage ==
  /\ socketState = "connected"
  /\ Len(messages) < MaxLedger
  /\ \E data \in Payloads :
       /\ messages' = IngestLive(messages,
                        ToMessage(data, "live", LiveCount(messages) + 1))
       /\ isTyping' = FALSE
       /\ isConnected' = TRUE
       /\ IF data.senderId # PatientId
            THEN \* the handler's parameter chatId (a string) shadows the ref:
                 \* chatId.current is undefined
                 Emit([type |-> "markAsRead", chatId |-> Undefined,
                       messageIds |-> <<data.id>>])
            ELSE NoEmit
       /\ lastEvent' = [type |-> "message", arg |-> data]
  /\ UNCHANGED <<message, isConnecting, socketState, sent, mounted, published,
                 lastTyping>>
  /\ UNCHANGED aiVars

\* a typing handler that does not look at userId
OnTypingAnyUser ==
  /\ socketState = "connected"
  /\ \E userId \in {PatientId, DoctorId}, typing \in BOOLEAN :
       /\ isTyping' = typing
       /\ lastEvent' = [type |-> "typing", userId |-> userId, typing |-> typing]
  /\ NoEmit
  /\ UNCHANGED <<message, messages, isConnecting, isConnected, socketState, sent,
                 mounted, published, lastTyping>>
  /\ UNCHANGED aiVars

\* socket.on('typing')
OnTyping ==
  /\ socketState = "connected"
  /\ \E userId \in {PatientId, DoctorId}, typing \in BOOLEAN :
       /\ isTyping' = IF userId # PatientId THEN typing ELSE isTyping
       /\ lastEvent' = [type |-> "typing", userId |-> userId, typing |-> typing]
  /\ NoEmit
  /\ UNCHANGED <<message, messages, isConnecting, isConnected, socketState, sent,
                 mounted, published, lastTyping>>
  /\ UNCHANGED aiVars

\* a sendMessage that emits only while the socket is connected
SendMessageIfConnected ==
  /\ mounted
  /\ ~isConnecting
  /\ IF Trim(message) = <<>>
       THEN /\ NoEmit
            /\ UNCHANGED <<message, messages, sent, published>>
       ELSE /\ Len(sent) < MaxSends
            /\ IF socketState = "connected"
                 THEN LET e == [type |-> "message", text |-> message,
                                chatId |-> ChatId, timestamp |-> ToWire(Now)]
                      IN /\ Emit(e)
                         /\ sent' = Append(sent, e)
                         /\ published' = Len(sent')
                 ELSE /\ NoEmit
                      /\ UNCHANGED <<sent, published>>
            /\ UNCHANGED messages
            /\ message' = <<>>
  /\ lastEvent' = [type |-> "sendMessage", text |-> message]
  /\ UNCHANGED <<isConnecting, isTyping, isConnected, socketState, mounted, lastTyping>>
  /\ UNCHANGED aiVars

\* sendMessage (the send button; the chat view is rendered once isConnecting
\* is false). socket.emit writes the event out while the socket is connected
\* and keeps it for the next connect otherwise.
SendMessage ==
  /\ mounted
  /\ ~isConnecting
  /\ IF Trim(message) = <<>>
       THEN /\ NoEmit
            /\ UNCHANGED <<message, messages, sent, published>>
       ELSE /\ Len(sent) < MaxSends
            /\ LET e == [type |-> "message", text |-> message,
                           chatId |-> ChatId, timestamp |-> ToWire(Now)]
               IN /\ Emit(e)
                  /\ sent' = Append(sent, e)
                  /\ UNCHANGED messages
            /\ published' = IF socketState = "connected" THEN Len(sent') ELSE published
            /\ message' = <<>>
  /\ lastEvent' = [type |-> "sendMessage", text |-> message]
  /\ UNCHANGED <<isConnecting, isTyping, isConnected, socketState, mounted, lastTyping>>
  /\ UNCHANGED aiVars

\* handleTyping (onChangeText of the compose input)
HandleTyping ==
  /\ mounted
  /\ ~isConnecting
  /\ \E text \in ChatInputs :
       /\ message' = text
       /\ Emit([type |-> "typing", chatId |-> ChatId, isTyping |-> Len(text) > 0])
       /\ lastTyping' = IF Len(text) > 0 THEN "true" ELSE "false"
       /\ lastEvent' = [type |-> "handleTyping", text |-> text]
  /\ UNCHANGED <<messages, isConnecting, isTyping, isConnected, socketState, sent,
                 mounted, published>>
  /\ UNCHANGED aiVars

\* an effect cleanup that leaves the socket open
UnmountNoDisconnect ==
  /\ mounted
  /\ mounted' = FALSE
  /\ NoEmit
  /\ lastEvent' = [type |-> "unmount", was |-> socketState]
  /\ UNCHANGED <<message, messages, isConnecting, isTyping, isConnected, socketState,
                 sent, published, lastTyping>>
  /\ UNCHANGED aiVars

\* the screen unmounts: the effect cleanup calls socket.current.disconnect(),
\* after which the socket neither reconnects nor delivers events
Unmount ==
  /\ mounted
  /\ mounted' = FALSE
  /\ socketState' = "closed"
  /\ NoEmit
  /\ lastEvent' = [type |-> "unmount", was |-> socketState]
  /\ UNCHANGED <<message, messages, isConnecting, isTyping, isConnected, sent,
                 published, lastTyping>>
  /\ UNCHANGED aiVars

\* the expiry window of a remote typing=true passes with no event in between:
\* the typing handler starts no timer, so no code runs
ExpiryWindowElapses ==
  /\ mounted
  /\ lastEvent.type = "typing"
  /\ isTyping
  /\ NoEmit
  /\ lastEvent' = [type |-> "expiry"]
  /\ UNCHANGED <<message, messages, isConnecting, isTyping, isConnected, socketState,
                 sent, mounted, published, lastTyping>>
  /\ UNCHANGED aiVars

\* the server reports messages read by the other party: the socket has no
\* listener for such an event, so it is dropped
OnReadReceipt ==
  /\ socketState = "connected"
  /\ \E messageIds \in {{OwnId(k)} : k \in 1..published} \cup {{"unknown"}} :
       lastEvent' = [type |-> "readReceipt", messageIds |-> messageIds]
  /\ NoEmit
  /\ UNCHANGED <<message, messages, isConnecting, isTyping, isConnected, socketState,
                 sent, mounted, published, lastTyping>>
  /\ UNCHANGED aiVars

ChatNext ==
  \/ OnConnect
  \/ OnConnectError
  \/ TransportDrop
  \/ OnPreviousMessages
  \/ OnMessage
  \/ OnTyping
  \/ SendMessage
  \/ HandleTyping
  \/ Unmount

\* ------------------------------------------------------- FilleAI (assistant)
OfflineNotice == <<"You're currently offline. I have limited functionality, but I'll try to help with basic information.">>
NoOfflineAnswer == <<"I don't have an offline answer for this question. Please reconnect to the internet for a complete response.">>
RequestErrorText == <<"Sorry, there was an error processing your request. Please check your network connection and make sure the server is running.">>

\* what the user can type into the question field: empty, blank, and a
\* question in several spellings
InputTexts == {<<>>, <<" ">>, <<"a">>, <<"A">>, <<" ", "a">>, <<"A", " ">>}

\* texts of the suggestion bubbles (SUGGESTED_QUESTIONS and the lists
\* updateSuggestedQuestions switches to)
SuggestedQuestions == {<<"A">>, <<"a", " ">>}

\* the stored 'offlineResponses' item: a JSON object of question -> answer,
\* written by some other process with keys as that process chose them
StoreKeys == {<<"a">>, <<"A">>, <<" ", "a">>}
Answers == {<<>>, <<"x">>}
Stores ==
  UNION {[K -> Answers] : K \in {S \in SUBSET StoreKeys : Cardinality(S) <= MaxStoreSize}}

EmptyStore == [k \in {} |-> <<>>]

\* what a live request can come to
Outcomes == {"rejected", "notOk", "string", "structured"}

\* typeof data.response === 'string' ? data.response : JSON.stringify(data.response)
AiResponse(outcome) == IF outcome = "string" THEN <<"r">> ELSE <<"{\"r\":1}">>

UserEntry(text) == [type |-> "user", text |-> text]
ComputerEntry(text) == [type |-> "computer", text |-> text]

\* offlineResponses[key]: undefined for a key the object does not have
Lookup(store, key) ==
  IF key \in DOMAIN store THEN [defined |-> TRUE, value |-> store[key]]
  ELSE [defined |-> FALSE, value |-> <<>>]

\* a truthiness test that takes every lookup result for an answer
TruthyAlways(v) == TRUE

\* a test that takes every stored answer, the empty one too, for an answer
TruthyDefined(v) == v.defined

\* truthiness of a lookup result: undefined and '' are falsy
Truthy(v) == v.defined /\ v.value # <<>>

\* the key handleSubmit reads: userMessage.toLowerCase().trim()
CacheKey(userMessage) == Trim(ToLowerCase(userMessage))

AIInit ==
  /\ aiMessages = <<>>
  /\ inputText = <<>>
  /\ isLoading = FALSE
  /\ isOnline = TRUE
  /\ offlineResponses = EmptyStore
  /\ offlineLoad = "pending"
  /\ isSearchSubmitted = FALSE
  /\ animating = FALSE
  /\ inflight = <<>>
  /\ fetched = <<>>
  /\ consulted = <<>>
  /\ aiLast = [type |-> "mount"]

\* a connectivity callback that re-submits the last question on coming online
NetInfoChangeRetry ==
  /\ \E reported \in {"true", "false", "null"} :
       /\ isOnline' = (reported = "true")
       /\ IF reported = "true" /\ aiMessages # <<>> /\ inflight = <<>>
            THEN /\ fetched' = <<aiMessages[1].text>>
                 /\ inflight' = <<aiMessages[1].text>>
            ELSE /\ fetched' = <<>>
                 /\ UNCHANGED inflight
  /\ consulted' = <<>>
  /\ aiLast' = [type |-> "netinfo"]
  /\ UNCHANGED <<aiMessages, inputText, isLoading, offlineResponses, offlineLoad,
                 isSearchSubmitted, animating>>
  /\ UNCHANGED chatVars

\* NetInfo.addEventListener callback: setIsOnline(state.isConnected ?? false)
NetInfoChange ==
  /\ \E reported \in {"true", "false", "null"} :
       isOnline' = (reported = "true")
  /\ fetched' = <<>>
  /\ consulted' = <<>>
  /\ aiLast' = [type |-> "netinfo"]
  /\ UNCHANGED <<aiMessages, inputText, isLoading, offlineResponses, offlineLoad,
                 isSearchSubmitted, animating, inflight>>
  /\ UNCHANGED chatVars

\* loadOfflineData: the stored item is absent (null) or a JSON object
LoadOfflineData ==
  /\ offlineLoad = "pending"
  /\ offlineLoad' = "done"
  /\ \/ UNCHANGED offlineResponses
     \/ \E store \in Stores : offlineResponses' = store
  /\ fetched' = <<>>
  /\ consulted' = <<>>
  /\ aiLast' = [type |-> "loadOfflineData"]
  /\ UNCHANGED <<aiMessages, inputText, isLoading, isOnline, isSearchSubmitted,
                 animating, inflight>>
  /\ UNCHANGED chatVars

\* onChangeText={setInputText}
ChangeText ==
  /\ \E text \in InputTexts : inputText' = text
  /\ fetched' = <<>>
  /\ consulted' = <<>>
  /\ aiLast' = [type |-> "changeText"]
  /\ UNCHANGED <<aiMessages, isLoading, isOnline, offlineResponses, offlineLoad,
                 isSearchSubmitted, animating, inflight>>
  /\ UNCHANGED chatVars

\* the completion callback of the first-message transition
AnimationDone ==
  /\ animating
  /\ animating' = FALSE
  /\ isSearchSubmitted' = TRUE
  /\ fetched' = <<>>
  /\ consulted' = <<>>
  /\ aiLast' = [type |-> "animationDone"]
  /\ UNCHANGED <<aiMessages, inputText, isLoading, isOnline, offlineResponses,
                 offlineLoad, inflight>>
  /\ UNCHANGED chatVars

\* handleSubmit without the isLoading test of its first line
HandleSubmitNoGuard(text, typed) ==
  LET userMessage == Trim(text)
      offlineAnswer == Lookup(offlineResponses, CacheKey(userMessage))
  IN
  IF userMessage = <<>>
    THEN /\ inputText' = typed
         /\ fetched' = <<>>
         /\ consulted' = <<>>
         /\ aiLast' = [type |-> "submit", accepted |-> FALSE, text |-> text,
                       online |-> isOnline]
         /\ UNCHANGED <<aiMessages, isLoading, animating, inflight>>
    ELSE /\ inputText' = <<>>
         /\ animating' = (animating \/ ~isSearchSubmitted)
         /\ aiLast' = [type |-> "submit", accepted |-> TRUE, text |-> text,
                       online |-> isOnline]
         /\ IF ~isOnline
              THEN /\ Len(aiMessages) + 3 <= MaxTranscript
                   /\ aiMessages' = aiMessages \o
                        <<UserEntry(userMessage), ComputerEntry(OfflineNotice),
                          ComputerEntry(IF Truthy(offlineAnswer) THEN offlineAnswer.value
                                        ELSE NoOfflineAnswer)>>
                   /\ consulted' = <<CacheKey(userMessage)>>
                   /\ isLoading' = FALSE
                   /\ fetched' = <<>>
                   /\ UNCHANGED inflight
              ELSE /\ Len(aiMessages) + 2 <= MaxTranscript
                   /\ aiMessages' = Append(aiMessages, UserEntry(userMessage))
                   /\ consulted' = <<>>
                   /\ isLoading' = TRUE
                   /\ fetched' = <<userMessage>>
                   /\ inflight' = Append(inflight, userMessage)

\* handleSubmit with the offline branch falling through to the live request
HandleSubmitNoReturn(text, typed) ==
  LET userMessage == Trim(text)
      offlineAnswer == Lookup(offlineResponses, CacheKey(userMessage))
  IN
  IF userMessage = <<>> \/ isLoading
    THEN /\ inputText' = typed
         /\ fetched' = <<>>
         /\ consulted' = <<>>
         /\ aiLast' = [type |-> "submit", accepted |-> FALSE, text |-> text,
                       online |-> isOnline]
         /\ UNCHANGED <<aiMessages, isLoading, animating, inflight>>
    ELSE /\ inputText' = <<>>
         /\ animating' = (animating \/ ~isSearchSubmitted)
         /\ aiLast' = [type |-> "submit", accepted |-> TRUE, text |-> text,
                       online |-> isOnline]
         /\ Len(aiMessages) + 3 <= MaxTranscript
         /\ aiMessages' =
              IF isOnline THEN Append(aiMessages, UserEntry(userMessage))
              ELSE aiMessages \o
                     <<UserEntry(userMessage), ComputerEntry(OfflineNotice),
                       ComputerEntry(IF Truthy(offlineAnswer) THEN offlineAnswer.value
                                     ELSE NoOfflineAnswer)>>
         /\ consulted' = IF isOnline THEN <<>> ELSE <<CacheKey(userMessage)>>
         /\ isLoading' = TRUE
         /\ fetched' = <<userMessage>>
         /\ inflight' = Append(inflight, userMessage)

\* handleSubmit(text), up to its first await; typed is the input field's
\* content when it is called
HandleSubmit(text, typed) ==
  LET userMessage == Trim(text)
      offlineAnswer == Lookup(offlineResponses, CacheKey(userMessage))
  IN
  IF userMessage = <<>> \/ isLoading
    THEN /\ inputText' = typed
         /\ fetched' = <<>>
         /\ consulted' = <<>>
         /\ aiLast' = [type |-> "submit", accepted |-> FALSE, text |-> text,
                       online |-> isOnline]
         /\ UNCHANGED <<aiMessages, isLoading, animating, inflight>>
    ELSE /\ inputText' = <<>>
         /\ animating' = (animating \/ ~isSearchSubmitted)
         /\ aiLast' = [type |-> "submit", accepted |-> TRUE, text |-> text,
                       online |-> isOnline]
         /\ IF ~isOnline
              THEN /\ Len(aiMessages) + 3 <= MaxTranscript
                   /\ aiMessages' = aiMessages \o
                        <<UserEntry(userMessage), ComputerEntry(OfflineNotice),
                          ComputerEntry(IF Truthy(offlineAnswer) THEN offlineAnswer.value
                                        ELSE NoOfflineAnswer)>>
                   /\ consulted' = <<CacheKey(userMessage)>>
                   /\ isLoading' = FALSE
                   /\ fetched' = <<>>
                   /\ UNCHANGED inflight
              ELSE /\ Len(aiMessages) + 2 <= MaxTranscript
                   /\ aiMessages' = Append(aiMessages, UserEntry(userMessage))
                   /\ consulted' = <<>>
                   /\ isLoading' = TRUE
                   /\ fetched' = <<userMessage>>
                   /\ inflight' = Append(inflight, userMessage)

\* the send button: disabled while loading or while the input is blank
PressSend ==
  /\ ~(isLoading \/ Trim(inputText) = <<>>)
  /\ HandleSubmit(inputText, inputText)
  /\ UNCHANGED <<isOnline, offlineResponses, offlineLoad, isSearchSubmitted>>
  /\ UNCHANGED chatVars

\* a suggestion bubble: those of the welcome view show until the transition
\* has completed, those of the suggestions row after it while not loading
PressSuggestion ==
  /\ \/ ~isSearchSubmitted
     \/ (isSearchSubmitted /\ ~isLoading /\ Len(aiMessages) > 0)
  /\ \E text \in SuggestedQuestions : HandleSubmit(text, text)
  /\ UNCHANGED <<isOnline, offlineResponses, offlineLoad, isSearchSubmitted>>
  /\ UNCHANGED chatVars

\* a continuation that does not test response.ok
FetchSettlesIgnoreStatus ==
  /\ inflight # <<>>
  /\ \E i \in DOMAIN inflight, outcome \in Outcomes :
       /\ inflight' = [k \in 1..(Len(inflight) - 1) |->
                         IF k < i THEN inflight[k] ELSE inflight[k + 1]]
       /\ aiMessages' = Append(aiMessages,
            IF outcome = "rejected"
              THEN ComputerEntry(RequestErrorText)
              ELSE ComputerEntry(AiResponse(outcome)))
       /\ aiLast' = [type |-> "settle", outcome |-> outcome, text |-> inflight[i]]
  /\ isLoading' = FALSE
  /\ fetched' = <<>>
  /\ consulted' = <<>>
  /\ UNCHANGED <<inputText, isOnline, offlineResponses, offlineLoad,
                 isSearchSubmitted, animating>>
  /\ UNCHANGED chatVars

\* a continuation that clears isLoading at the end of the try block only
FetchSettlesNoFinally ==
  /\ inflight # <<>>
  /\ \E i \in DOMAIN inflight, outcome \in Outcomes :
       /\ inflight' = [k \in 1..(Len(inflight) - 1) |->
                         IF k < i THEN inflight[k] ELSE inflight[k + 1]]
       /\ aiMessages' = Append(aiMessages,
            IF outcome \in {"rejected", "notOk"}
              THEN ComputerEntry(RequestErrorText)
              ELSE ComputerEntry(AiResponse(outcome)))
       /\ isLoading' = IF outcome \in {"rejected", "notOk"} THEN isLoading ELSE FALSE
       /\ aiLast' = [type |-> "settle", outcome |-> outcome, text |-> inflight[i]]
  /\ fetched' = <<>>
  /\ consulted' = <<>>
  /\ UNCHANGED <<inputText, isOnline, offlineResponses, offlineLoad,
                 isSearchSubmitted, animating>>
  /\ UNCHANGED chatVars

\* handleSubmit after await fetch(...): the response, or the catch block;
\* then finally
FetchSettles ==
  /\ inflight # <<>>
  /\ \E i \in DOMAIN inflight, outcome \in Outcomes :
       /\ inflight' = [k \in 1..(Len(inflight) - 1) |->
                         IF k < i THEN inflight[k] ELSE inflight[k + 1]]
       /\ aiMessages' = Append(aiMessages,
            IF outcome \in {"rejected", "notOk"}
              THEN ComputerEntry(RequestErrorText)
              ELSE ComputerEntry(AiResponse(outcome)))
       /\ aiLast' = [type |-> "settle", outcome |-> outcome, text |-> inflight[i]]
  /\ isLoading' = FALSE
  /\ fetched' = <<>>
  /\ consulted' = <<>>
  /\ UNCHANGED <<inputText, isOnline, offlineResponses, offlineLoad,
                 isSearchSubmitted, animating>>
  /\ UNCHANGED chatVars

AINext ==
  \/ NetInfoChange
  \/ LoadOfflineData
  \/ ChangeText
  \/ AnimationDone
  \/ PressSend
  \/ PressSuggestion
  \/ FetchSettles

vars == <<chatVars, aiVars>>

Init == ChatInit /\ AIInit

\* the patient chat screen
Next == ChatNext
Spec == Init /\ [][Next]_vars

\* the chat screen, together with what happens around it that no handler of
\* the screen takes up
NextUnhandled ==
  \/ ChatNext
  \/ ExpiryWindowElapses
  \/ OnReadReceipt
SpecUnhandled == Init /\ [][NextUnhandled]_vars

\* the assistant screen
NextAI == AINext
SpecAI == Init /\ [][NextAI]_vars

\* the assistant screen, with every live request settling in the end: fetch
\* resolves or rejects
SpecAILive == SpecAI /\ WF_vars(FetchSettles)

TypeOK == Len(messages) <= MaxLedger /\ Len(sent) <= MaxSends

\* ------------------------------------------------------ ledger properties
Count(ledger, id) == Cardinality({i \in DOMAIN ledger : ledger[i].id = id})

\* the ledger holds a copy of id that the server delivered
ServerDelivered(ledger, id) ==
  \E i \in DOMAIN ledger :
    ledger[i].id = id /\ ledger[i].origin \in {"history", "live"}

IsOwn(m) == m.senderId = PatientId

\* the position of an own message among the patient's sends
SendIndex(id) == CHOOSE k \in 1..Len(sent) : OwnId(k) = id

ShownRead(ledger, id) ==
  \E i \in DOMAIN ledger : ledger[i].id = id /\ ledger[i].isRead
ShownUnread(ledger, id) ==
  \E i \in DOMAIN ledger : ledger[i].id = id /\ ~ledger[i].isRead

LedgerIds(ledger) == {ledger[i].id : i \in DOMAIN ledger}

\* C1: no two entries of the ledger have the same identifier.
UniqueIds ==
  \A i, j \in DOMAIN messages : i # j => messages[i].id # messages[j].id

\* C2: delivering the previousMessages batch that was delivered just before
\* leaves the ledger as the first delivery left it.
HistoryIdempotent ==
  [][(/\ lastEvent.type = "previousMessages"
      /\ lastEvent'.type = "previousMessages"
      /\ lastEvent'.arg = lastEvent.arg) => messages' = messages]_vars

OwnSendOrder ==
  \A i, j \in DOMAIN messages :
    (i < j /\ IsOwn(messages[i]) /\ IsOwn(messages[j]))
      => SendIndex(messages[i].id) <= SendIndex(messages[j].id)

\* C5: of two live messages in the ledger, the one that arrived first stands
\* first, whatever their timestamps and senders.
LiveArrivalOrder ==
  \A i, j \in DOMAIN messages :
    (/\ messages[i].origin = "live" /\ messages[j].origin = "live"
     /\ messages[i].arrival < messages[j].arrival) => i < j

\* two live messages of different senders, the later arrival carrying the
\* earlier timestamp
LiveArrivalWitness ==
  \E i, j \in DOMAIN messages :
    /\ messages[i].origin = "live" /\ messages[j].origin = "live"
    /\ messages[i].arrival < messages[j].arrival
    /\ messages[i].timestamp > messages[j].timestamp
    /\ messages[i].senderId # messages[j].senderId

\* C6: every history message precedes every live message in the ledger, and
\* a batch that has just been ingested stands in the ledger in server order.
HistoryBeforeLive ==
  /\ \A i, j \in DOMAIN messages :
       (messages[i].origin = "history" /\ messages[j].origin = "live") => i < j
  /\ (lastEvent.type = "previousMessages" /\ lastEvent.arg # <<>>) =>
       LET n == Len(lastEvent.arg)
           k == Len(messages) - n
       IN /\ k >= 0
          /\ \A i \in 1..n : /\ messages[k + i].id = lastEvent.arg[i].id
                              /\ messages[k + i].origin = "history"

\* C7: a send of a non-blank text puts one new entry at the tail of the
\* ledger, carrying that text and authored by the patient.
LocalSendAppends ==
  [][(lastEvent'.type = "sendMessage" /\ Trim(lastEvent'.text) # <<>>) =>
       /\ Len(messages') = Len(messages) + 1
       /\ messages'[Len(messages')].text = lastEvent'.text
       /\ messages'[Len(messages')].senderId = PatientId]_vars

\* C8: an identifier the ledger shows as read is not shown as unread after
\* the next event.
ReadNeverRegresses ==
  [][\A id \in LedgerIds(messages) :
       (ShownRead(messages, id) /\ ~ShownUnread(messages, id))
         => ~ShownUnread(messages', id)]_vars

\* ---------------------------------------------------- assistant properties
\* the trimmed, lowercased form of a text
Normalized(s) == Trim(ToLowerCase(s))

LastEntry == aiMessages[Len(aiMessages)]

\* C9: an accepted submission made while isOnline is false issues no live
\* request, reads the offline cache once and ends the transcript with the
\* offline notice followed by the cached answer or the no-answer message; one
\* made while isOnline is true issues exactly one live request, reads no cache
\* entry and appends only the user's message.
NetworkGate ==
  (aiLast.type = "submit" /\ aiLast.accepted) =>
    IF aiLast.online
      THEN /\ Len(fetched) = 1
           /\ fetched[1] = Trim(aiLast.text)
           /\ consulted = <<>>
           /\ LastEntry = UserEntry(Trim(aiLast.text))
      ELSE /\ fetched = <<>>
           /\ inflight = <<>>
           /\ Len(consulted) = 1
           /\ Len(aiMessages) >= 3
           /\ aiMessages[Len(aiMessages) - 2] = UserEntry(Trim(aiLast.text))
           /\ aiMessages[Len(aiMessages) - 1] = ComputerEntry(OfflineNotice)
           /\ LastEntry.type = "computer"
           /\ LastEntry.text \in
                {NoOfflineAnswer} \cup
                {offlineResponses[k] : k \in DOMAIN offlineResponses}

\* an offline submission has just been answered with a cached answer
NetworkGateWitness ==
  /\ aiLast.type = "submit" /\ aiLast.accepted /\ ~aiLast.online
  /\ LastEntry.text = <<"x">>

\* C10: an offline query is answered with the stored answer of every entry
\* whose key has the same trimmed, lowercased form as the question, and with
\* the no-answer message when no stored key has that form.  (Entries with an
\* empty answer are left out here.)
OfflineLookupNormalized ==
  (aiLast.type = "submit" /\ aiLast.accepted /\ ~aiLast.online) =>
    /\ \A k \in DOMAIN offlineResponses :
         (Normalized(k) = Normalized(aiLast.text) /\ offlineResponses[k] # <<>>)
           => LastEntry.text = offlineResponses[k]
    /\ (\A k \in DOMAIN offlineResponses :
          Normalized(k) # Normalized(aiLast.text))
           => LastEntry.text = NoOfflineAnswer

\* C11: an accepted offline submission appends exactly three entries: the
\* user's message, the offline notice, and then either a stored, non-empty
\* answer or the no-answer message; the busy flag is clear afterwards.
OfflineAnswerOrNotice ==
  [][(aiLast'.type = "submit" /\ aiLast'.accepted /\ ~aiLast'.online) =>
       /\ Len(aiMessages') = Len(aiMessages) + 3
       /\ SubSeq(aiMessages', 1, Len(aiMessages)) = aiMessages
       /\ aiMessages'[Len(aiMessages) + 1] = UserEntry(Trim(aiLast'.text))
       /\ aiMessages'[Len(aiMessages) + 2] = ComputerEntry(OfflineNotice)
       /\ aiMessages'[Len(aiMessages) + 3].type = "computer"
       /\ \/ aiMessages'[Len(aiMessages) + 3].text = NoOfflineAnswer
          \/ \E k \in DOMAIN offlineResponses :
               /\ offlineResponses[k] # <<>>
               /\ aiMessages'[Len(aiMessages) + 3].text = offlineResponses[k]
       /\ ~isLoading']_vars

\* an offline question has been answered before the stored answers were loaded
OfflineNeverLoadedWitness ==
  /\ aiLast.type = "submit" /\ aiLast.accepted /\ ~aiLast.online
  /\ offlineLoad = "pending"
  /\ LastEntry.text = NoOfflineAnswer
  /\ ~isLoading

OfflineResultDiscarded ==
  [][(aiLast'.type = "settle" /\ ~isOnline) => aiMessages' = aiMessages]_vars

\* C15: a connectivity notification issues no request and appends nothing;
\* a request is issued only by an accepted submission made while online.
PureGate ==
  [][/\ (aiLast'.type = "netinfo") =>
          (aiMessages' = aiMessages /\ inflight' = inflight /\ fetched' = <<>>)
     /\ (Len(inflight') > Len(inflight) \/ fetched' # <<>>) =>
          (aiLast'.type = "submit" /\ aiLast'.accepted /\ aiLast'.online)]_vars

\* back online after a question was answered offline: nothing is in flight
BackOnlineWitness ==
  /\ aiLast.type = "netinfo"
  /\ isOnline
  /\ Len(aiMessages) = 3
  /\ aiMessages[2] = ComputerEntry(OfflineNotice)
  /\ inflight = <<>>

\* C18: once the screen is torn down the socket is closed and stays closed
\* (no reconnection attempt), nothing is emitted, and the ledger, the typing
\* flag and the connection flags keep their values.
TeardownIsFinal ==
  [][~mounted' =>
       /\ socketState' = "closed"
       /\ ~mounted => /\ emitted' = emitted
                      /\ UNCHANGED <<messages, isTyping, isConnecting, isConnected>>]_vars

\* the screen was torn down while the socket was reconnecting after a drop
TornDownWhileReconnectingWitness ==
  /\ ~mounted
  /\ lastEvent.type = "unmount"
  /\ lastEvent.was = "connecting"
  /\ ~isConnecting
  /\ Len(messages) > 1

TypingEdgesOnly ==
  [][(lastEvent'.type = "handleTyping") => lastTyping' # lastTyping]_vars

\* C26: a live request that fails (fetch rejects, or the status is not 2xx)
\* appends exactly one entry, the computer-authored error text, right after
\* the user's message, and clears the busy flag.
RequestErrorSurfaced ==
  [][(aiLast'.type = "settle" /\ aiLast'.outcome \in {"rejected", "notOk"}) =>
       /\ aiMessages # <<>>
       /\ aiMessages[Len(aiMessages)] = UserEntry(aiLast'.text)
       /\ aiMessages' = Append(aiMessages, ComputerEntry(RequestErrorText))
       /\ ~isLoading']_vars

\* a request has come back with a status that is not 2xx
NotOkSettledWitness ==
  /\ aiLast.type = "settle"
  /\ aiLast.outcome = "notOk"
  /\ LastEntry = ComputerEntry(RequestErrorText)
  /\ ~isLoading

\* C27: handleSubmit is never entered with a question and left without
\* effect: no submission of a non-blank text is refused.
NeverDroppedWhileBusy ==
  ~(aiLast.type = "submit" /\ ~aiLast.accepted /\ Trim(aiLast.text) # <<>>)

\* C28: whenever the busy flag is set it is cleared again.
BusyClears == isLoading ~> ~isLoading

\* a request that was rejected has settled and left the screen interactive
RejectedSettledWitness ==
  /\ aiLast.type = "settle"
  /\ aiLast.outcome = "rejected"
  /\ ~isLoading
  /\ inflight = <<>>

\* C22: a markAsRead event carries the conversation identifier as chatId and
\* exactly the identifier of the message just received as messageIds.
MarkAsReadAddressesChat ==
  \A i \in DOMAIN emitted :
    (emitted[i].type = "markAsRead") =>
      /\ emitted[i].chatId = ChatId
      /\ lastEvent.type = "message"
      /\ emitted[i].messageIds = <<lastEvent.arg.id>>

\* C23: the handler of an inbound message emits no markAsRead; receipt alone
\* does not acknowledge the message as read.
NoReadAckOnReceipt ==
  (lastEvent.type = "message") =>
    \A i \in DOMAIN emitted : emitted[i].type # "markAsRead"

\* C25: after a connect_error the ledger shows a system entry with the error
\* text, the connecting flag is clear, and the socket is still trying to
\* connect.
ConnectErrorSurfaced ==
  (lastEvent.type = "connect_error") =>
    /\ \E i \in DOMAIN messages :
         /\ messages[i].senderType = "system"
         /\ messages[i].text = ErrorText
    /\ ~isConnecting
    /\ socketState = "connecting"

\* a reconnection attempt failed in the middle of a session
ReconnectFailedWitness ==
  /\ lastEvent.type = "connect_error"
  /\ published > 0
  /\ ~isConnecting
  /\ messages[Len(messages)].id = "system-error"

\* C29: after every connect the connecting flag is clear and the handler has
\* emitted one joinChat, carrying the screen's patientId and doctorId.
ConnectJoinsChat ==
  (lastEvent.type = "connect") =>
    /\ ~isConnecting
    /\ emitted = <<[type |-> "joinChat", patientId |-> PatientId,
                    doctorId |-> DoctorId]>>

\* the socket has connected again after a session in which a message went out
ReconnectedWitness ==
  /\ lastEvent.type = "connect"
  /\ lastEvent.flushed = 0
  /\ published > 0
  /\ socketState = "connected"

\* C30: every entry of the ledger before a step is an entry of the ledger
\* after it.
LedgerNeverLoses ==
  [][\A i \in DOMAIN messages :
       \E j \in DOMAIN messages' : messages'[j] = messages[i]]_vars

\* C21: when the expiry window of a remote typing=true has passed with no
\* event in between, the typing flag is false.
TypingExpires ==
  [][(lastEvent'.type = "expiry") => ~isTyping']_vars

\* C24: a read receipt sets every ledger entry it names to read and leaves
\* the other entries as they were.
ReadReceiptApplied ==
  [][(lastEvent'.type = "readReceipt") =>
       /\ Len(messages') = Len(messages)
       /\ \A i \in DOMAIN messages :
            IF messages[i].id \in lastEvent'.messageIds
              THEN messages'[i] = [messages[i] EXCEPT !.isRead = TRUE]
              ELSE messages'[i] = messages[i]]_vars

\* C31: no two user-authored entries of the transcript are adjacent.
NoAdjacentUserEntries ==
  \A i \in 1..(Len(aiMessages) - 1) :
    ~(aiMessages[i].type = "user" /\ aiMessages[i + 1].type = "user")

\* two questions have been asked and each has its computer-authored entry
TwoQuestionsWitness ==
  /\ Len(aiMessages) = 4
  /\ aiMessages[1].type = "user"
  /\ aiMessages[2].type = "computer"
  /\ aiMessages[3].type = "user"
  /\ aiMessages[4].type = "computer"

\* C36: an offline question whose key is stored with the empty answer gets
\* the no-answer message.
EmptyAnswerIsMissing ==
  (/\ aiLast.type = "submit" /\ aiLast.accepted /\ ~aiLast.online
   /\ consulted # <<>>
   /\ consulted[1] \in DOMAIN offlineResponses
   /\ offlineResponses[consulted[1]] = <<>>)
    => LastEntry = ComputerEntry(NoOfflineAnswer)

\* an offline question has hit a key that is stored with the empty answer
EmptyAnswerWitness ==
  /\ aiLast.type = "submit" /\ aiLast.accepted /\ ~aiLast.online
  /\ consulted # <<>>
  /\ consulted[1] \in DOMAIN offlineResponses
  /\ offlineResponses[consulted[1]] = <<>>
  /\ LastEntry.text = NoOfflineAnswer

\* C32: the connected indicator starts false, is turned on only by a
\* non-empty history batch or a live message, and is never turned off.
ConnectedIndicatorLatches ==
  [][/\ isConnected => isConnected'
     /\ (isConnected' # isConnected) =>
          \/ lastEvent'.type = "message"
          \/ (lastEvent'.type = "previousMessages" /\ lastEvent'.arg # <<>>)
     /\ (lastEvent'.type = "message") => isConnected']_vars

\* the indicator is on although the socket is down and a reconnection
\* attempt has just failed
StillConnectedAfterErrorWitness ==
  /\ isConnected
  /\ lastEvent.type = "connect_error"
  /\ socketState = "connecting"

\* C33: the remote typing flag takes the value of a typing event of another
\* user, is cleared by every live message, and is left alone by everything
\* else, a typing event attributed to the local patient included.
TypingFlagFrame ==
  [][/\ (lastEvent'.type = "typing" /\ lastEvent'.userId # PatientId) =>
          isTyping' = lastEvent'.typing
     /\ (lastEvent'.type = "typing" /\ lastEvent'.userId = PatientId) =>
          isTyping' = isTyping
     /\ (lastEvent'.type = "message") => ~isTyping'
     /\ (lastEvent'.type \notin {"typing", "message"}) => isTyping' = isTyping]_vars

\* a typing=false event attributed to the local patient has left the flag on
OwnTypingIgnoredWitness ==
  /\ lastEvent.type = "typing"
  /\ lastEvent.userId = PatientId
  /\ ~lastEvent.typing
  /\ isTyping

\* C34: while the compose input is empty, the typing event emitted last, if
\* there is one, has isTyping=false.
TypingAgreesWithInput ==
  (message = <<>> /\ lastTyping # "none") => lastTyping = "false"

\* C35: markAsRead is emitted by the message handler alone: once, naming the
\* message, for a live message of another party; not for a message of the
\* local patient; not for a history batch.
OneReadAckPerRemoteMessage ==
  /\ (lastEvent.type = "message" /\ lastEvent.arg.senderId # PatientId) =>
       /\ Len(emitted) = 1
       /\ emitted[1].type = "markAsRead"
       /\ emitted[1].messageIds = <<lastEvent.arg.id>>
  /\ (lastEvent.type = "message" /\ lastEvent.arg.senderId = PatientId) =>
       emitted = <<>>
  /\ (lastEvent.type # "message") =>
       \A i \in DOMAIN emitted : emitted[i].type # "markAsRead"

\* a history batch holding a message of the doctor has been taken in, and
\* nothing was emitted
HistoryNotAckedWitness ==
  /\ lastEvent.type = "previousMessages"
  /\ \E i \in DOMAIN lastEvent.arg : lastEvent.arg[i].senderId # PatientId
  /\ emitted = <<>>
====
